---- MODULE Spec2Model ----
(***************************************************************************)
(* Model of the patched Express backend (src/backend/server.js): the two   *)
(* validation middlewares validateUserId and sanitizeComment, the routes   *)
(* /populate, /users, /user, /comment, /comments and the SQLite tables     *)
(* users and comments they read and write.                                 *)
(*                                                                         *)
(* JavaScript values are records of one shape (field t is the type).       *)
(* Strings are sequences of one-character strings. Numbers are decimal     *)
(* fractions n / 10^e in lowest form (e = 0 or n not a multiple of 10).    *)
(***************************************************************************)
EXTENDS Integers, Sequences, FiniteSets, TLC

\* ------------------------------------------------------------------ bounds
\* longest enumerated string in the validators' input sets
MaxLen == 3
\* longest enumerated array in the validators' input sets
MaxArr == 2
\* largest numerator of an enumerated JSON number
MaxNum == 2
\* requests the server receives in one run
MaxReq == 2
\* /populate requests among them
MaxPopulate == 1
\* bcrypt cost factor of insertRandomUsers
SaltRounds == 10

\* ------------------------------------------------------------------ JS values
MkVal(t, b, n, e, s, a, k) == [t |-> t, b |-> b, n |-> n, e |-> e, s |-> s, a |-> a, k |-> k]

Undef == MkVal("undefined", FALSE, 0, 0, <<>>, <<>>, "")
Null == MkVal("null", FALSE, 0, 0, <<>>, <<>>, "")
Bool(b) == MkVal("bool", b, 0, 0, <<>>, <<>>, "")
Num(n, e) == MkVal("num", FALSE, n, e, <<>>, <<>>, "")
Str(s) == MkVal("str", FALSE, 0, 0, s, <<>>, "")
Arr(a) == MkVal("arr", FALSE, 0, 0, <<>>, a, "")
\* a JSON object: k = "plain" for {}, "len0" for {"length": 0},
\* "lenN" for {"length": 2}, "nostr" for {"toString": 1}
Obj(k) == MkVal("obj", FALSE, 0, 0, <<>>, <<>>, k)

\* results of ToNumber: NaN, the infinity of sign n, or the finite decimal n / 10^e
NaN == [k |-> "nan", n |-> 0, e |-> 0]
Inf(sgn) == [k |-> "inf", n |-> sgn, e |-> 0]
Fin(n, e) == [k |-> "fin", n |-> n, e |-> e]

RECURSIVE Pow10(_)
Pow10(k) == IF k <= 0 THEN 1 ELSE 10 * Pow10(k - 1)

RECURSIVE Canon(_, _)
Canon(n, e) ==
  IF n = 0 THEN Fin(0, 0)
  ELSE IF e < 0 THEN Fin(n * Pow10(0 - e), 0)
  ELSE IF e > 0 /\ n % 10 = 0 THEN Canon(n \div 10, e - 1)
  ELSE Fin(n, e)

\* ------------------------------------------------------------------ strings
Digits == <<"0", "1", "2", "3", "4", "5", "6", "7", "8", "9">>
IsDigit(c) == \E i \in 1..10 : Digits[i] = c
DigitVal(c) == (CHOOSE i \in 1..10 : Digits[i] = c) - 1
AllDigits(s) == \A i \in 1..Len(s) : IsDigit(s[i])

RECURSIVE DigitsVal(_)
DigitsVal(s) ==
  IF s = <<>> THEN 0 ELSE 10 * DigitsVal(SubSeq(s, 1, Len(s) - 1)) + DigitVal(s[Len(s)])

\* characters written as themselves between the quotes: U+000B line tabulation,
\* U+00A0 no-break space, U+FEFF byte order mark, U+1680 ogham space mark, and
\* U+0085 next line (no white space to JavaScript)
VT == ""
NBSP == " "
BOM == "﻿"
OGHAM == " "
NEL == ""

\* characters a string of this module cannot hold, written as their escape:
\* the space separators U+2000 to U+200A, U+202F, U+205F, U+3000 and the line
\* terminators U+2028, U+2029
WideSpaces ==
  {"\\u2000", "\\u2001", "\\u2002", "\\u2003", "\\u2004", "\\u2005", "\\u2006", "\\u2007",
   "\\u2008", "\\u2009", "\\u200a", "\\u202f", "\\u205f", "\\u3000", "\\u2028", "\\u2029"}

\* the white space of SQLite (sqlite3Isspace): U+0009 to U+000D and the space
SqliteIsSpace(c) == c \in {" ", "\t", "\n", VT, "\f", "\r"}

\* StrWhiteSpaceChar: WhiteSpace and LineTerminator of ECMAScript
IsSpace(c) == SqliteIsSpace(c) \/ c \in {NBSP, BOM, OGHAM} \/ c \in WideSpaces
IsSign(c) == c \in {"+", "-"}

RECURSIVE TrimLeft(_)
TrimLeft(s) == IF s # <<>> /\ IsSpace(s[1]) THEN TrimLeft(Tail(s)) ELSE s
RECURSIVE TrimRight(_)
TrimRight(s) ==
  IF s # <<>> /\ IsSpace(s[Len(s)]) THEN TrimRight(SubSeq(s, 1, Len(s) - 1)) ELSE s
Trim(s) == TrimRight(TrimLeft(s))

RECURSIVE SqliteTrimLeft(_)
SqliteTrimLeft(s) == IF s # <<>> /\ SqliteIsSpace(s[1]) THEN SqliteTrimLeft(Tail(s)) ELSE s
RECURSIVE SqliteTrimRight(_)
SqliteTrimRight(s) ==
  IF s # <<>> /\ SqliteIsSpace(s[Len(s)])
  THEN SqliteTrimRight(SubSeq(s, 1, Len(s) - 1)) ELSE s
SqliteTrim(s) == SqliteTrimRight(SqliteTrimLeft(s))

\* position of the first character of s that is in cs, or 0
IndexOf(s, cs) ==
  IF \E i \in 1..Len(s) : s[i] \in cs
  THEN CHOOSE i \in 1..Len(s) : s[i] \in cs /\ \A j \in 1..(i - 1) : s[j] \notin cs
  ELSE 0

RECURSIVE IntToStr(_)
IntToStr(k) ==
  IF k < 10 THEN <<Digits[k + 1]>> ELSE IntToStr(k \div 10) \o <<Digits[(k % 10) + 1]>>

RECURSIVE PadLeft(_, _)
PadLeft(s, w) == IF Len(s) >= w THEN s ELSE PadLeft(<<"0">> \o s, w)

\* ------------------------------------------------------------------ coercions
\* Number::toString of the finite decimal n / 10^e in lowest form: with k
\* digits d1..dk and the decimal point after digit p = k - e, plain decimal
\* notation for -6 < p <= 21 and d1[.d2..dk]e(+|-)x with x = p - 1 otherwise
NumberToString(n, e) ==
  LET m == IF n < 0 THEN 0 - n ELSE n
      ds == IntToStr(m)
      p == Len(ds) - e
      sign == IF n < 0 THEN <<"-">> ELSE <<>>
      ip == IntToStr(m \div Pow10(e))
      fp == IF e = 0 THEN <<>> ELSE <<".">> \o PadLeft(IntToStr(m % Pow10(e)), e)
      x == p - 1
      frac == IF Len(ds) = 1 THEN <<>> ELSE <<".">> \o Tail(ds)
  IN IF m = 0 THEN <<"0">>
     ELSE IF p > 0 - 6 /\ p <= 21 THEN sign \o ip \o fp
     ELSE sign \o <<ds[1]>> \o frac \o <<"e">>
            \o (IF x < 0 THEN <<"-">> \o IntToStr(0 - x) ELSE <<"+">> \o IntToStr(x))

RECURSIVE Join(_)

\* the string an array element contributes to Array.prototype.join: null and
\* undefined give "", an array its own join, an object "[object Object]"
ElemToStr(v) ==
  CASE v.t = "str" -> v.s
    [] v.t = "num" -> NumberToString(v.n, v.e)
    [] v.t = "bool" -> IF v.b THEN <<"t", "r", "u", "e">> ELSE <<"f", "a", "l", "s", "e">>
    [] v.t \in {"null", "undefined"} -> <<>>
    [] v.t = "arr" -> Join(v.a)
    [] OTHER -> <<"[", "o", "b", "j", "e", "c", "t", " ", "O", "b", "j", "e", "c", "t", "]">>

Join(a) ==
  IF a = <<>> THEN <<>>
  ELSE IF Len(a) = 1 THEN ElemToStr(a[1])
  ELSE ElemToStr(a[1]) \o <<",">> \o Join(Tail(a))

\* the digits of the 0x / 0o / 0b literals, lower and upper case
HexLower == <<"0", "1", "2", "3", "4", "5", "6", "7", "8", "9", "a", "b", "c", "d", "e", "f">>
HexUpper == <<"0", "1", "2", "3", "4", "5", "6", "7", "8", "9", "A", "B", "C", "D", "E", "F">>
IsRadixDigit(c, base) == \E i \in 1..base : HexLower[i] = c \/ HexUpper[i] = c
RadixDigitVal(c) == (CHOOSE i \in 1..16 : HexLower[i] = c \/ HexUpper[i] = c) - 1

RECURSIVE RadixVal(_, _)
RadixVal(s, base) ==
  IF s = <<>> THEN 0
  ELSE base * RadixVal(SubSeq(s, 1, Len(s) - 1), base) + RadixDigitVal(s[Len(s)])

\* the base a literal's prefix announces, or 0
RadixOf(t) ==
  IF Len(t) < 2 \/ t[1] # "0" THEN 0
  ELSE CASE t[2] \in {"x", "X"} -> 16
         [] t[2] \in {"o", "O"} -> 8
         [] t[2] \in {"b", "B"} -> 2
         [] OTHER -> 0

NonDecimalLiteral(t) ==
  LET base == RadixOf(t)
      ds == SubSeq(t, 3, Len(t))
  IN IF ds # <<>> /\ \A i \in 1..Len(ds) : IsRadixDigit(ds[i], base)
     THEN Fin(RadixVal(ds, base), 0)
     ELSE NaN

InfinityLiteral == <<"I", "n", "f", "i", "n", "i", "t", "y">>

\* StrDecimalLiteral after its sign: Infinity, or digits with an optional
\* fraction and an optional exponent
DecimalLiteral(body, sgn) ==
  LET ePos == IndexOf(body, {"e", "E"})
      mant == IF ePos = 0 THEN body ELSE SubSeq(body, 1, ePos - 1)
      expP == IF ePos = 0 THEN <<>> ELSE SubSeq(body, ePos + 1, Len(body))
      expNeg == expP # <<>> /\ expP[1] = "-"
      expD == IF expP # <<>> /\ IsSign(expP[1]) THEN Tail(expP) ELSE expP
      expOk == ePos = 0 \/ (expD # <<>> /\ AllDigits(expD))
      dot == IndexOf(mant, {"."})
      ip == IF dot = 0 THEN mant ELSE SubSeq(mant, 1, dot - 1)
      fp == IF dot = 0 THEN <<>> ELSE SubSeq(mant, dot + 1, Len(mant))
      mantOk == AllDigits(ip) /\ AllDigits(fp) /\ (ip # <<>> \/ fp # <<>>)
  IN IF body = InfinityLiteral THEN Inf(sgn)
     ELSE IF ~(expOk /\ mantOk) THEN NaN
     ELSE LET x == IF expNeg THEN 0 - DigitsVal(expD) ELSE DigitsVal(expD)
          IN Canon(sgn * (DigitsVal(ip) * Pow10(Len(fp)) + DigitsVal(fp)), Len(fp) - x)

\* StringToNumber: white space trimmed, "" is 0, then a 0x / 0o / 0b literal
\* (unsigned) or a signed decimal literal; anything else is NaN
StringToNumber(s) ==
  LET t == Trim(s)
  IN IF t = <<>> THEN Fin(0, 0)
     ELSE IF RadixOf(t) # 0 THEN NonDecimalLiteral(t)
     ELSE IF IsSign(t[1]) THEN DecimalLiteral(Tail(t), IF t[1] = "-" THEN 0 - 1 ELSE 1)
     ELSE DecimalLiteral(t, 1)

\* ToPrimitive throws a TypeError when neither valueOf nor toString yields a
\* primitive: the JSON object {"toString": 1}, and an array whose join meets
\* such an object at any depth
RECURSIVE ToPrimitiveThrows(_)
ToPrimitiveThrows(v) ==
  \/ v.t = "obj" /\ v.k = "nostr"
  \/ v.t = "arr" /\ \E i \in 1..Len(v.a) : ToPrimitiveThrows(v.a[i])

\* ToNumber, as the global isNaN applies it to its argument; where ToPrimitive
\* throws (ToPrimitiveThrows) there is no number, and validateUserId asks first
ToNumber(v) ==
  CASE v.t = "undefined" -> NaN
    [] v.t = "null" -> Fin(0, 0)
    [] v.t = "bool" -> IF v.b THEN Fin(1, 0) ELSE Fin(0, 0)
    [] v.t = "num" -> Fin(v.n, v.e)
    [] v.t = "str" -> StringToNumber(v.s)
    [] v.t = "arr" -> StringToNumber(Join(v.a))
    [] OTHER -> NaN

ObjectText == <<"[", "o", "b", "j", "e", "c", "t", " ", "O", "b", "j", "e", "c", "t", "]">>

\* the text an object or an array converts to (String(v))
ToStringOfObject(v) == IF v.t = "arr" THEN Join(v.a) ELSE ObjectText

\* what the sqlite3 driver can bind for a parameter of db.get. The repository
\* pins no version of the driver: an array or an object is bound as the TEXT of
\* its string conversion (node-sqlite3 before 5.1.5) or as the constant TEXT
\* "[object Object]" (from 5.1.5 on); numbers, booleans and strings are bound
\* as they are
DriverBindings(v) ==
  IF v.t \in {"arr", "obj"} THEN {Str(ToStringOfObject(v)), Str(ObjectText)} ELSE {v}

\* the number SQLite makes of a TEXT value compared with an INTEGER column:
\* SQLite's white space trimmed, then a signed decimal numeral with optional
\* fraction and exponent; no 0x / 0o / 0b prefix, no Infinity, and "" is not a
\* number
SqliteTextToNumber(s) ==
  LET t == SqliteTrim(s)
      body == IF t # <<>> /\ IsSign(t[1]) THEN Tail(t) ELSE t
      sgn == IF t # <<>> /\ t[1] = "-" THEN 0 - 1 ELSE 1
  IN IF body = <<>> \/ body = InfinityLiteral THEN NaN ELSE DecimalLiteral(body, sgn)

\* the number SQLite compares with the INTEGER key for a bound value: numbers
\* as they are, booleans as 1 / 0, strings as TEXT, null as NULL
BoundNumber(v) ==
  CASE v.t = "num" -> Fin(v.n, v.e)
    [] v.t = "bool" -> IF v.b THEN Fin(1, 0) ELSE Fin(0, 0)
    [] v.t = "str" -> SqliteTextToNumber(v.s)
    [] OTHER -> NaN

isNaN(v) == ToNumber(v).k = "nan"

\* ToBoolean, as the ! operator applies it
ToBoolean(v) ==
  CASE v.t \in {"undefined", "null"} -> FALSE
    [] v.t = "bool" -> v.b
    [] v.t = "num" -> v.n # 0
    [] v.t = "str" -> v.s # <<>>
    [] OTHER -> TRUE

\* content.length === 0
LengthIsZero(v) ==
  CASE v.t = "str" -> Len(v.s) = 0
    [] v.t = "arr" -> Len(v.a) = 0
    [] v.t = "obj" -> v.k = "len0"
    [] OTHER -> FALSE

\* content.replace is a function: only strings have String.prototype.replace
HasReplace(v) == v.t = "str"

\* ------------------------------------------------------------------ sanitizeComment
\* String.prototype.replace with a global one-character pattern
RECURSIVE ReplaceAll(_, _, _)
ReplaceAll(s, c, rep) ==
  IF s = <<>> THEN <<>>
  ELSE (IF s[1] = c THEN rep ELSE <<s[1]>>) \o ReplaceAll(Tail(s), c, rep)

AMP == <<"&", "a", "m", "p", ";">>
LT == <<"&", "l", "t", ";">>
GT == <<"&", "g", "t", ";">>
QUOT == <<"&", "q", "u", "o", "t", ";">>

\* the replace chain with & escaped last: the & of &lt; &gt; &quot; is escaped again
EscapeChain_AmpLast(s) ==
  ReplaceAll(ReplaceAll(ReplaceAll(ReplaceAll(s, "<", LT), ">", GT), "\"", QUOT), "&", AMP)

\* the replace chain without its first step: & is left as it is
EscapeChain_NoAmp(s) ==
  ReplaceAll(ReplaceAll(ReplaceAll(s, "<", LT), ">", GT), "\"", QUOT)

\* the replace chain with a fifth replacement, of the apostrophe
EscapeChain_Apostrophe(s) ==
  ReplaceAll(ReplaceAll(ReplaceAll(ReplaceAll(ReplaceAll(s, "&", AMP), "<", LT), ">", GT),
                        "\"", QUOT), "'", <<"&", "#", "3", "9", ";">>)

\* the replace chain of sanitizeComment: & first, then < > "
EscapeChain(s) ==
  ReplaceAll(ReplaceAll(ReplaceAll(ReplaceAll(s, "&", AMP), "<", LT), ">", GT), "\"", QUOT)

\* a sanitizeComment without the content.length === 0 test and with a falsy test
\* that lets the empty string through
sanitizeOutcome_EmptyAccepted(content) ==
  IF content.t \in {"undefined", "null"} THEN "rejected"
  ELSE IF ~HasReplace(content) THEN "threw"
  ELSE "next"

\* what sanitizeComment does with req.body.content:
\*   "rejected": res.status(400).json({error: "Comment cannot be empty"})
\*   "threw":    content.replace is not a function (TypeError)
\*   "next":     req.body.content = escaped content; next()
sanitizeOutcome(content) ==
  IF ~ToBoolean(content) \/ LengthIsZero(content) THEN "rejected"
  ELSE IF ~HasReplace(content) THEN "threw"
  ELSE "next"

sanitizeComment(content) ==
  IF sanitizeOutcome(content) = "next" THEN Str(EscapeChain(content.s)) ELSE content

\* ------------------------------------------------------------------ validateUserId
\* a validateUserId that only accepts values of type number
validateUserId_NumbersOnly(id) ==
  IF id.t # "num" \/ ~ToBoolean(id) THEN "rejected" ELSE "next"

\* a validateUserId without the isNaN test
validateUserId_TruthyOnly(id) ==
  IF ~ToBoolean(id) THEN "rejected" ELSE "next"

\* what validateUserId does with req.body.id:
\*   "rejected": res.status(400).json({error: "Invalid ID"})
\*   "threw":    isNaN(id) cannot convert the object to a primitive (TypeError)
\*   "next":     next()
validateUserId(id) ==
  IF ~ToBoolean(id) THEN "rejected"
  ELSE IF ToPrimitiveThrows(id) THEN "threw"
  ELSE IF isNaN(id) THEN "rejected"
  ELSE "next"

\* ------------------------------------------------------------------ inputs
StrsUpTo(A, n) == UNION {[1..k -> A] : k \in 0..n}

IdAlphabet == {"0", "3", "-", ".", " ", "a"}
ContentAlphabet == {"&", "<", ">", "\"", "a"}

\* a content with none of & < > " in it
SafeExample == <<"i", "t", "'", "s", " ", "o", "k">>
ScriptExample ==
  <<"<", "s", "c", "r", "i", "p", "t", ">", "a", "l", "e", "r", "t", "(", "\"", "x", "\"", ")",
    "<", "/", "s", "c", "r", "i", "p", "t", ">">>
BoldExample == <<"<", "b", ">", "h", "i", "<", "/", "b", ">">>

Nums == {Num(Canon(n, e).n, Canon(n, e).e) : n \in (0 - MaxNum)..MaxNum, e \in 0..1}
ArrElems == {Null, Bool(TRUE), Num(3, 0), Str(<<"3">>), Str(<<"a">>), Str(<<>>)}
Arrs == {Arr(a) : a \in StrsUpTo(ArrElems, MaxArr)}
Objs == {Obj(k) : k \in {"plain", "len0", "lenN", "nostr"}}
\* arrays of arrays and of objects, and of a number written with an exponent
NestedArrs ==
  {Arr(<<Arr(<<Num(3, 0)>>)>>), Arr(<<Arr(<<>>)>>), Arr(<<Arr(<<Num(2, 0)>>)>>),
   Arr(<<Arr(<<Num(3, 0)>>), Num(1, 0)>>), Arr(<<Arr(<<Str(<<"a">>), Str(<<"b">>)>>)>>),
   Arr(<<Obj("nostr")>>), Arr(<<Arr(<<Obj("nostr")>>)>>), Arr(<<Obj("plain")>>),
   Arr(<<Num(2, 0)>>), Arr(<<Num(1, 7)>>)}
NonStrings ==
  {Undef, Null, Bool(TRUE), Bool(FALSE)} \cup Nums \cup Arrs \cup NestedArrs \cup Objs

\* ids padded with tabs and line breaks, and ids that JavaScript and SQLite
\* read differently or alike: radix prefixes, decimal numerals of a stored key
PaddedIds ==
  {Str(<<"\t", "3">>), Str(<<"\t">>), Str(<<"\n", "2", "\n">>), Str(<<"3", "\n">>),
   Str(<<"\r", "\n", "3">>), Str(<<"\t", "2">>), Str(<<" ", "\f", "1">>),
   Str(<<VT, "2">>), Str(<<"2", VT>>), Str(<<VT>>), Str(<<NBSP, "2">>), Str(<<NBSP>>),
   Str(<<BOM, "2">>), Str(<<OGHAM, "2">>), Str(<<"\\u2028", "2", "\\u3000">>),
   Str(<<NEL, "2">>), Arr(<<Str(<<VT, "2">>)>>), Arr(<<Str(<<NBSP, "2">>)>>)}
KeyNumerals ==
  {Str(<<"0", "x", "2">>), Str(<<"0", "b", "1", "0">>), Str(<<"0", "X", "1">>),
   Str(<<"0", "o", "3">>), Str(<<"1">>), Str(<<" ", "2">>), Str(<<"2", ".", "0">>),
   Str(<<"+", "2">>), Str(<<"2", "e", "0">>), Str(<<".", "2", "e", "1">>), Str(<<"0", "2">>)}

\* every id the validators are checked on
IdValues ==
  NonStrings
    \cup {Str(s) : s \in StrsUpTo(IdAlphabet, MaxLen)}
    \cup {Str(<<"3", "a", "b", "c">>), Str(<<"7">>), Str(<<"2">>), Str(<<"1", "e", "1">>),
          Str(<<"+", "1">>), Str(<<"0", "x", "1", "F">>), Str(<<"0", "x">>),
          Str(<<"0", "b", "1", "2">>), Str(<<"-", "0", "x", "1">>), Str(InfinityLiteral),
          Str(<<"-">> \o InfinityLiteral), Num(7, 0)}
    \cup PaddedIds \cup KeyNumerals

\* every content the validators are checked on
ContentValues ==
  NonStrings
    \cup {Str(s) : s \in StrsUpTo(ContentAlphabet, MaxLen)}
    \cup {Str(ScriptExample), Str(BoldExample), Str(AMP), Str(LT), Str(GT), Str(QUOT),
          Str(AMP \o <<"l", "t", ";">>), Str(<<"&", ";">>), Str(<<"a", ";">>),
          Str(<<"&", "a", ";">>), Str(SafeExample)}

\* the ids and contents of the requests of a run of the whole server
ReqIds == {Str(<<>>), Str(<<"2">>), Num(0 - 1, 0)}
ReqContents == {Undef, Str(<<>>), Str(BoldExample), Num(1, 0)}

\* ------------------------------------------------------------------ state
VARIABLES
  reqs,      \* the requests received so far, each with its responses
  users,     \* rows of table users: [id, name, password]
  comments,  \* rows of table comments: [id, content]
  tasks      \* the per-user callbacks of insertRandomUsers

vars == <<reqs, users, comments, tasks>>

\* a stored credential: bcrypt.hash(password, SaltRounds)
BcryptHash(password) == [alg |-> "bcrypt", rounds |-> SaltRounds, of |-> password]

\* rows that database.db can hold when the server starts: the file outlives
\* the process, and an earlier run of this server wrote them (hashed
\* credentials, sanitized contents); on the first run both tables are created
\* empty
SeedComments == <<[id |-> 1, content |-> <<"o", "l", "d", " ">> \o AMP]>>

SeedUsers ==
  <<[id |-> 1, name |-> "Ann Lee", password |-> BcryptHash("pw1")],
    [id |-> 2, name |-> "Bob Ray", password |-> BcryptHash("pw2")]>>

\* what the three calls to randomuser.me can return
FetchResults ==
  {<<[name |-> "Dee Fox", password |-> "pw1"], [name |-> "Eli Kay", password |-> "pw2"],
     [name |-> "Cy Orr", password |-> "pw1"]>>}

ErrMessage == "SQLITE_ERROR"

\* a response: kind "json" with text = the error property (or "") and rows and
\* success the payload, kind "text" with text = the body sent by res.send
Response(status, kind, text, rows, success) ==
  [status |-> status, kind |-> kind, text |-> text, rows |-> rows, success |-> success]

\* the default error handler of Express answers an exception thrown by a middleware
ExpressError == Response(500, "html", "TypeError", <<>>, FALSE)

Request(route, sub, mw, pc, op, param, res) ==
  [route |-> route, sub |-> sub, mw |-> mw, pc |-> pc, op |-> op, param |-> param,
   calls |-> IF op = "none" THEN 0 ELSE 1, res |-> res, logged |-> 0]

\* SELECT <cols> of one row
Project(row, cols) == [c \in cols |-> row[c]]

RECURSIVE MapRows(_, _)
MapRows(rows, cols) ==
  IF rows = <<>> THEN <<>> ELSE <<Project(rows[1], cols)>> \o MapRows(Tail(rows), cols)

RECURSIVE Reverse(_)
Reverse(s) == IF s = <<>> THEN <<>> ELSE Reverse(Tail(s)) \o <<s[1]>>

\* WHERE id = ?  with the bound parameter compared with the INTEGER key
LookupMatch(param, row) == BoundNumber(param) = Fin(row.id, 0)

\* the lookup with SELECT * in place of SELECT id, name
LookupRows_AllColumns(param) ==
  LET hit == {i \in 1..Len(users) : LookupMatch(param, users[i])}
  IN IF hit = {} THEN <<>>
     ELSE <<Project(users[CHOOSE i \in hit : TRUE], {"id", "name", "password"})>>

\* the lookup with the WHERE clause dropped: db.get yields the first row
LookupRows_FirstRow(param) ==
  IF users = <<>> THEN <<>> ELSE <<Project(users[1], {"id", "name"})>>

LookupRows(param) ==
  LET hit == {i \in 1..Len(users) : LookupMatch(param, users[i])}
  IN IF hit = {} THEN <<>> ELSE <<Project(users[CHOOSE i \in hit : TRUE], {"id", "name"})>>

Respond(i, r) == [reqs EXCEPT ![i].res = Append(@, r), ![i].pc = "done"]
RespondLogged(i, r) ==
  [reqs EXCEPT ![i].res = Append(@, r), ![i].pc = "done", ![i].logged = @ + 1]

\* the server listens with the tables as the open callback and the two CREATE
\* TABLE IF NOT EXISTS made them (first run, no database.db) or found them (the
\* file an earlier run left)
Init ==
  /\ reqs = <<>>
  /\ users \in {<<>>, SeedUsers}
  /\ comments \in {<<>>, SeedComments}
  /\ tasks = <<>>

\* ------------------------------------------------------------------ routes
\* POST /user with the lookup issued whatever validateUserId answered
PostUser_LookupAlways(id) ==
  /\ Len(reqs) < MaxReq
  /\ LET out == validateUserId(id)
     IN reqs' = Append(reqs,
          CASE out = "next" -> Request("/user", id, out, "db", "get", id, <<>>)
            [] out = "rejected" ->
                 Request("/user", id, out, "db", "get", id,
                         <<Response(400, "json", "Invalid ID", <<>>, FALSE)>>)
            [] OTHER -> Request("/user", id, out, "done", "none", Undef, <<ExpressError>>))
  /\ UNCHANGED <<users, comments, tasks>>

\* POST /user: validateUserId, then the handler issues db.get
PostUser(id) ==
  /\ Len(reqs) < MaxReq
  /\ LET out == validateUserId(id)
     IN reqs' = Append(reqs,
          CASE out = "next" -> Request("/user", id, out, "db", "get", id, <<>>)
            [] out = "rejected" ->
                 Request("/user", id, out, "done", "none", Undef,
                         <<Response(400, "json", "Invalid ID", <<>>, FALSE)>>)
            [] OTHER -> Request("/user", id, out, "done", "none", Undef, <<ExpressError>>))
  /\ UNCHANGED <<users, comments, tasks>>

\* the callback of db.get without the return of its error branch: res.json runs
\* after res.status(500).json
UserLookupDone_NoReturn(i, ok) ==
  /\ reqs[i].route = "/user" /\ reqs[i].pc = "db"
  /\ \E bound \in DriverBindings(reqs[i].param) :
       reqs' = IF ok
               THEN Respond(i, Response(200, "json", "", LookupRows(bound), FALSE))
               ELSE [reqs EXCEPT ![i].res = @ \o <<Response(500, "json", ErrMessage, <<>>, FALSE),
                                                   Response(200, "json", "", <<>>, FALSE)>>,
                                 ![i].pc = "done", ![i].logged = @ + 1]
  /\ UNCHANGED <<users, comments, tasks>>

\* the callback of db.get in POST /user, the driver having bound [id]
UserLookupDone(i, ok) ==
  /\ reqs[i].route = "/user" /\ reqs[i].pc = "db"
  /\ \E bound \in DriverBindings(reqs[i].param) :
       reqs' = IF ok
               THEN Respond(i, Response(200, "json", "", LookupRows(bound), FALSE))
               ELSE RespondLogged(i, Response(500, "json", ErrMessage, <<>>, FALSE))
  /\ UNCHANGED <<users, comments, tasks>>

\* POST /comment with the handler reading the submitted content, as if
\* sanitizeComment had not written req.body.content back
PostComment_Unsanitized(content) ==
  /\ Len(reqs) < MaxReq
  /\ LET out == sanitizeOutcome(content)
     IN reqs' = Append(reqs,
          CASE out = "next" -> Request("/comment", content, out, "db", "run", content, <<>>)
            [] out = "rejected" ->
                 Request("/comment", content, out, "done", "none", Undef,
                         <<Response(400, "json", "Comment cannot be empty", <<>>, FALSE)>>)
            [] OTHER -> Request("/comment", content, out, "done", "none", Undef, <<ExpressError>>))
  /\ UNCHANGED <<users, comments, tasks>>

\* POST /comment: sanitizeComment, then the handler issues db.run
PostComment(content) ==
  /\ Len(reqs) < MaxReq
  /\ LET out == sanitizeOutcome(content)
     IN reqs' = Append(reqs,
          CASE out = "next" ->
                 Request("/comment", content, out, "db", "run", sanitizeComment(content), <<>>)
            [] out = "rejected" ->
                 Request("/comment", content, out, "done", "none", Undef,
                         <<Response(400, "json", "Comment cannot be empty", <<>>, FALSE)>>)
            [] OTHER -> Request("/comment", content, out, "done", "none", Undef, <<ExpressError>>))
  /\ UNCHANGED <<users, comments, tasks>>

\* the callback of db.run with the content kept in one variable shared by all
\* requests: the row gets the content of the latest accepted request
CommentInsertDone_SharedContent(i, ok) ==
  /\ reqs[i].route = "/comment" /\ reqs[i].pc = "db"
  /\ LET accepted == {j \in 1..Len(reqs) : reqs[j].route = "/comment" /\ reqs[j].mw = "next"}
         last == CHOOSE j \in accepted : \A k \in accepted : k <= j
     IN IF ok
        THEN /\ comments' = Append(comments, [id |-> Len(comments) + 1,
                                              content |-> reqs[last].param.s])
             /\ reqs' = Respond(i, Response(200, "json", "", <<>>, TRUE))
        ELSE /\ comments' = comments
             /\ reqs' = RespondLogged(i, Response(500, "json", ErrMessage, <<>>, FALSE))
  /\ UNCHANGED <<users, tasks>>

\* the callback of db.run in POST /comment
CommentInsertDone(i, ok) ==
  /\ reqs[i].route = "/comment" /\ reqs[i].pc = "db"
  /\ IF ok
     THEN /\ comments' = Append(comments, [id |-> Len(comments) + 1, content |-> reqs[i].param.s])
          /\ reqs' = Respond(i, Response(200, "json", "", <<>>, TRUE))
     ELSE /\ comments' = comments
          /\ reqs' = RespondLogged(i, Response(500, "json", ErrMessage, <<>>, FALSE))
  /\ UNCHANGED <<users, tasks>>

\* GET /users issues db.all
GetUsers ==
  /\ Len(reqs) < MaxReq
  /\ reqs' = Append(reqs, Request("/users", Undef, "none", "db", "all", Undef, <<>>))
  /\ UNCHANGED <<users, comments, tasks>>

\* the callback of db.all in GET /users
UsersListDone(i, ok) ==
  /\ reqs[i].route = "/users" /\ reqs[i].pc = "db"
  /\ reqs' = IF ok
             THEN Respond(i, Response(200, "json", "", MapRows(users, {"id"}), FALSE))
             ELSE RespondLogged(i, Response(500, "text", "Database error", <<>>, FALSE))
  /\ UNCHANGED <<users, comments, tasks>>

\* GET /comments issues db.all
GetComments ==
  /\ Len(reqs) < MaxReq
  /\ reqs' = Append(reqs, Request("/comments", Undef, "none", "db", "all", Undef, <<>>))
  /\ UNCHANGED <<users, comments, tasks>>

\* the callback of db.all in GET /comments: SELECT * ... ORDER BY id DESC
CommentsListDone(i, ok) ==
  /\ reqs[i].route = "/comments" /\ reqs[i].pc = "db"
  /\ reqs' = IF ok
             THEN Respond(i, Response(200, "json", "",
                              Reverse(MapRows(comments, {"id", "content"})), FALSE))
             ELSE RespondLogged(i, Response(500, "text", "Database error", <<>>, FALSE))
  /\ UNCHANGED <<users, comments, tasks>>

\* GET /populate calls insertRandomUsers, which awaits the three axios.get
Populate ==
  /\ Len(reqs) < MaxReq
  /\ Cardinality({i \in 1..Len(reqs) : reqs[i].route = "/populate"}) < MaxPopulate
  /\ reqs' = Append(reqs, Request("/populate", Undef, "none", "fetch", "none", Undef, <<>>))
  /\ UNCHANGED <<users, comments, tasks>>

Task(i, u) == [req |-> i, name |-> u.name, password |-> u.password, stage |-> "hash",
               credential |-> BcryptHash("")]

\* Promise.all settles: on success users.forEach starts one async callback per
\* user (each suspended at await bcrypt.hash) and insertRandomUsers returns; on
\* failure the catch logs. Either way the route handler then sends its response.
FetchDone(i, ok, fetched) ==
  /\ reqs[i].route = "/populate" /\ reqs[i].pc = "fetch"
  /\ LET r == Response(200, "text", "Inserted 3 users into database.", <<>>, FALSE)
     IN IF ok
        THEN /\ tasks' = tasks \o <<Task(i, fetched[1]), Task(i, fetched[2]), Task(i, fetched[3])>>
             /\ reqs' = Respond(i, r)
        ELSE /\ tasks' = tasks
             /\ reqs' = RespondLogged(i, r)
  /\ UNCHANGED <<users, comments>>

\* the callback as it was before bcrypt: db.run issued with [fullName, password]
HashDone_Plaintext(t) ==
  /\ tasks[t].stage = "hash"
  /\ tasks' = [tasks EXCEPT ![t].stage = "insert",
                            ![t].credential = [alg |-> "plain", rounds |-> 0,
                                               of |-> tasks[t].password]]
  /\ UNCHANGED <<reqs, users, comments>>

\* bcrypt.hash resolves: the callback issues db.run with [fullName, hashedPassword]
HashDone(t) ==
  /\ tasks[t].stage = "hash"
  /\ tasks' = [tasks EXCEPT ![t].stage = "insert",
                            ![t].credential = BcryptHash(tasks[t].password)]
  /\ UNCHANGED <<reqs, users, comments>>

\* the callback of db.run in insertRandomUsers; its error branch calls
\* console.error, counted on the /populate request that started it
UserInsertDone(t, ok) ==
  /\ tasks[t].stage = "insert"
  /\ IF ok
     THEN /\ users' = Append(users, [id |-> Len(users) + 1, name |-> tasks[t].name,
                                     password |-> tasks[t].credential])
          /\ tasks' = [tasks EXCEPT ![t].stage = "done"]
          /\ reqs' = reqs
     ELSE /\ users' = users
          /\ tasks' = [tasks EXCEPT ![t].stage = "failed"]
          /\ reqs' = [reqs EXCEPT ![tasks[t].req].logged = @ + 1]
  /\ UNCHANGED comments

\* ------------------------------------------------------------------ specifications
NoPopulateYet == \A i \in 1..Len(reqs) : reqs[i].route # "/populate"

\* the whole server, MaxReq requests in any interleaving, one /populate at most
\* among them
Next ==
  \/ \E id \in ReqIds : PostUser(id)
  \/ \E content \in ReqContents : PostComment(content)
  \/ GetUsers
  \/ GetComments
  \/ NoPopulateYet /\ Populate
  \/ \E i \in 1..Len(reqs), ok \in BOOLEAN, f \in FetchResults : FetchDone(i, ok, f)
  \/ \E t \in 1..Len(tasks) : HashDone(t)
  \/ \E t \in 1..Len(tasks), ok \in BOOLEAN : UserInsertDone(t, ok)
  \/ \E i \in 1..Len(reqs), ok \in BOOLEAN : UserLookupDone(i, ok)
  \/ \E i \in 1..Len(reqs), ok \in BOOLEAN : CommentInsertDone(i, ok)
  \/ \E i \in 1..Len(reqs), ok \in BOOLEAN : UsersListDone(i, ok)
  \/ \E i \in 1..Len(reqs), ok \in BOOLEAN : CommentsListDone(i, ok)

Spec == Init /\ [][Next]_vars

\* one request with an id or a content of any JSON type
OneRequest == Len(reqs) < 1

NextValidators ==
  \/ \E id \in IdValues : OneRequest /\ PostUser(id)
  \/ \E content \in ContentValues : OneRequest /\ PostComment(content)
  \/ \E i \in 1..Len(reqs), ok \in BOOLEAN : UserLookupDone(i, ok)
  \/ \E i \in 1..Len(reqs), ok \in BOOLEAN : CommentInsertDone(i, ok)

SpecValidators == Init /\ [][NextValidators]_vars

\* the user seeding alone: MaxPopulate /populate requests, their fetches,
\* password hashes and inserts completing in any order
NextSeeding ==
  \/ Populate
  \/ \E i \in 1..Len(reqs), ok \in BOOLEAN, f \in FetchResults : FetchDone(i, ok, f)
  \/ \E t \in 1..Len(tasks) : HashDone(t)
  \/ \E t \in 1..Len(tasks), ok \in BOOLEAN : UserInsertDone(t, ok)

SpecSeeding == Init /\ [][NextSeeding]_vars

\* concurrent POST /comment requests: MaxReq of them, their db.run callbacks
\* completing in any order
ConcContents ==
  {Str(<<>>), Num(1, 0), Str(<<"a">>), Str(<<"&", "<">>), Str(LT), Str(BoldExample)}

NextComments ==
  \/ \E content \in ConcContents : PostComment(content)
  \/ \E i \in 1..Len(reqs), ok \in BOOLEAN : CommentInsertDone(i, ok)

SpecComments == Init /\ [][NextComments]_vars

\* ------------------------------------------------------------------ claims
ReqIx == 1..Len(reqs)
InvalidIdResponse == Response(400, "json", "Invalid ID", <<>>, FALSE)
EmptyCommentResponse == Response(400, "json", "Comment cannot be empty", <<>>, FALSE)

\* C1: in POST /user, whenever validateUserId rejects the submitted id the request
\* ends with the single response 400 "Invalid ID" and issues no store lookup; a
\* store lookup is issued only for a request whose id validateUserId accepted.
C1_RejectedIdNeverReachesStore ==
  \A i \in ReqIx :
    reqs[i].route = "/user" =>
      /\ reqs[i].mw = "rejected" =>
           /\ reqs[i].res = <<InvalidIdResponse>>
           /\ reqs[i].calls = 0 /\ reqs[i].op = "none" /\ reqs[i].pc = "done"
      /\ (reqs[i].calls > 0 \/ reqs[i].op # "none") => reqs[i].mw = "next"

C1_Witness ==
  \E i \in ReqIx :
    /\ reqs[i].route = "/user" /\ reqs[i].sub = Str(<<"3", "a", "b", "c">>)
    /\ reqs[i].mw = "rejected" /\ reqs[i].res = <<InvalidIdResponse>> /\ reqs[i].calls = 0

\* the reference escaping, one character at a time
RefChar(c) ==
  CASE c = "&" -> AMP
    [] c = "<" -> LT
    [] c = ">" -> GT
    [] c = "\"" -> QUOT
    [] OTHER -> <<c>>

RECURSIVE RefEscape(_)
RefEscape(s) == IF s = <<>> THEN <<>> ELSE RefChar(s[1]) \o RefEscape(Tail(s))

ScriptEscaped ==
  LT \o <<"s", "c", "r", "i", "p", "t">> \o GT \o <<"a", "l", "e", "r", "t", "(">> \o QUOT
     \o <<"x">> \o QUOT \o <<")">> \o LT \o <<"/", "s", "c", "r", "i", "p", "t">> \o GT
BoldEscaped == LT \o <<"b">> \o GT \o <<"h", "i">> \o LT \o <<"/", "b">> \o GT

\* C2: the content sanitizeComment hands on equals the reference escaping of the
\* submitted string (& < > " replaced by &amp; &lt; &gt; &quot;, every other
\* character kept in place, no & of an escape escaped again); "&<" gives
\* "&amp;&lt;" and the script example gives its escaped form.
C2_SanitizeIsReferenceEscaping ==
  \A i \in ReqIx :
    (reqs[i].route = "/comment" /\ reqs[i].mw = "next") =>
      /\ reqs[i].sub.t = "str"
      /\ reqs[i].param = Str(RefEscape(reqs[i].sub.s))
      /\ reqs[i].sub = Str(<<"&", "<">>) => reqs[i].param.s = AMP \o LT
      /\ reqs[i].sub = Str(ScriptExample) => reqs[i].param.s = ScriptEscaped

C2_Witness ==
  \E i \in ReqIx :
    /\ reqs[i].route = "/comment" /\ reqs[i].sub = Str(<<"&", "<">>)
    /\ reqs[i].mw = "next" /\ reqs[i].param.s = <<"&", "a", "m", "p", ";", "&", "l", "t", ";">>

\* s holds one of the four escape sequences at position i
EscapeAt(s, i) ==
  \E esc \in {AMP, LT, GT, QUOT} :
    i + Len(esc) - 1 <= Len(s) /\ SubSeq(s, i, i + Len(esc) - 1) = esc

SafeAtRest(s) ==
  \A i \in 1..Len(s) : s[i] \notin {"<", ">", "\""} /\ (s[i] = "&" => EscapeAt(s, i))

\* the rows the tables held when the server started (no request submits the
\* content of SeedComments and no fetch yields the names of SeedUsers) and the
\* rows stored since
OldComments == IF comments # <<>> /\ comments[1] = SeedComments[1] THEN 1 ELSE 0
OldUsers ==
  IF Len(users) >= Len(SeedUsers) /\ SubSeq(users, 1, Len(SeedUsers)) = SeedUsers
  THEN Len(SeedUsers) ELSE 0
NewComments == (OldComments + 1)..Len(comments)
NewUsers == (OldUsers + 1)..Len(users)

\* C3: every comment in the store has no < > " and every & in it starts one of
\* &amp; &lt; &gt; &quot;; each content stored by this run is the escaping of the
\* content some accepted request submitted, and <b>hi</b> is stored as
\* &lt;b&gt;hi&lt;/b&gt;.
C3_StoredCommentsAreSanitized ==
  /\ \A c \in 1..Len(comments) : SafeAtRest(comments[c].content)
  /\ \A c \in NewComments :
       \E i \in ReqIx :
         /\ reqs[i].route = "/comment" /\ reqs[i].sub.t = "str"
         /\ comments[c].content = RefEscape(reqs[i].sub.s)
  /\ \A i \in ReqIx :
       (reqs[i].route = "/comment" /\ reqs[i].sub = Str(BoldExample) /\ reqs[i].pc = "done"
          /\ reqs[i].res[1].status = 200)
         => \E c \in 1..Len(comments) : comments[c].content = BoldEscaped

C3_Witness ==
  /\ \E c \in 1..Len(comments) :
       comments[c].content =
         <<"&", "l", "t", ";", "b", "&", "g", "t", ";", "h", "i", "&", "l", "t", ";", "/", "b",
           "&", "g", "t", ";">>
  /\ \E i \in ReqIx : reqs[i].route = "/comment" /\ reqs[i].mw = "rejected"

\* the categories of id the claim lists as not cleanly a number
NotCleanlyNumeric(v) ==
  \/ v.t \in {"undefined", "null", "bool", "arr", "obj"}
  \/ v.t = "str" /\ (Trim(v.s) = <<>> \/ StringToNumber(v.s) = NaN)

\* a numeric identifier input: a number, or a string that spells a number
NumericInput(v) ==
  \/ v.t = "num"
  \/ v.t = "str" /\ Trim(v.s) # <<>> /\ StringToNumber(v.s) # NaN

\* C4 (as claimed): validateUserId rejects with "Invalid ID" every id that is not
\* cleanly a number: absent, null, empty, whitespace-only or non-numeric string,
\* numeric prefix with trailing garbage, boolean, array, object.
C4_NonNumericIdRejected ==
  \A i \in ReqIx :
    (reqs[i].route = "/user" /\ NotCleanlyNumeric(reqs[i].sub)) =>
      reqs[i].mw = "rejected" /\ reqs[i].res = <<InvalidIdResponse>>

\* C5 (as claimed): every numeric identifier input, number or numeric string, is
\* accepted and the parameter of the store lookup has the parsed numeric value.
C5_EveryNumericIdAccepted ==
  \A i \in ReqIx :
    (reqs[i].route = "/user" /\ NumericInput(reqs[i].sub)) =>
      /\ reqs[i].mw = "next" /\ reqs[i].op = "get"
      /\ ToNumber(reqs[i].param) = ToNumber(reqs[i].sub)

\* C5 (amended): every numeric identifier input other than the number 0 (a
\* nonzero number, or a numeric string, "0" included) is accepted, and the
\* parameter of the store lookup is the submitted value itself, unparsed and
\* unchanged; the number 0 is rejected with "Invalid ID".
C5_NonZeroNumericIdForwarded ==
  \A i \in ReqIx :
    (reqs[i].route = "/user" /\ NumericInput(reqs[i].sub)) =>
      IF reqs[i].sub = Num(0, 0)
      THEN reqs[i].mw = "rejected" /\ reqs[i].res = <<InvalidIdResponse>> /\ reqs[i].op = "none"
      ELSE /\ reqs[i].mw = "next" /\ reqs[i].op = "get" /\ reqs[i].calls = 1
           /\ reqs[i].param = reqs[i].sub

C5_Witness ==
  /\ \E i \in ReqIx :
       /\ reqs[i].route = "/user" /\ reqs[i].sub = Str(<<"3">>) /\ reqs[i].mw = "next"
       /\ reqs[i].param = Str(<<"3">>) /\ reqs[i].pc = "done" /\ reqs[i].res[1].status = 200
  /\ users # <<>>

\* C6: in POST /comment an absent or empty content is answered by the single
\* response 400 "Comment cannot be empty" and issues no insert; the comments
\* table has gained exactly one row per request that was accepted and whose
\* insert succeeded, so a rejected request leaves the stored comments as they were.
C6_EmptyContentRejected ==
  /\ \A i \in ReqIx :
       (reqs[i].route = "/comment" /\ reqs[i].sub \in {Undef, Str(<<>>)}) =>
         /\ reqs[i].res = <<EmptyCommentResponse>> /\ reqs[i].pc = "done"
         /\ reqs[i].calls = 0 /\ reqs[i].op = "none"
  /\ Cardinality(NewComments) =
       Cardinality({i \in ReqIx : /\ reqs[i].route = "/comment" /\ reqs[i].pc = "done"
                                  /\ reqs[i].sub \notin {Undef, Str(<<>>)}
                                  /\ reqs[i].res[1].success})

C6_Witness ==
  /\ Len(comments) = 1 /\ OldComments = 0
  /\ \E i \in ReqIx :
       /\ i > 1 /\ reqs[i].route = "/comment" /\ reqs[i].sub = Str(<<>>)
       /\ reqs[i].res = <<EmptyCommentResponse>>

\* C7 (as claimed): for an id or a content of any JSON type, validation ends in
\* acceptance, in 400 "Invalid ID" or in 400 "Comment cannot be empty", and in
\* no other way: no exception, no other error response.
C7_ValidationEndsInThreeWays ==
  \A i \in ReqIx :
    reqs[i].route \in {"/user", "/comment"} =>
      \/ reqs[i].mw = "next"
      \/ reqs[i].mw = "rejected" /\ reqs[i].route = "/user" /\ reqs[i].res = <<InvalidIdResponse>>
      \/ reqs[i].mw = "rejected" /\ reqs[i].route = "/comment"
           /\ reqs[i].res = <<EmptyCommentResponse>>

StoreRoutes == {"/users", "/user", "/comment", "/comments"}

\* C8: a request to /users, /user, /comment or /comments never has more than one
\* response and has exactly one once it is finished; while its store operation is
\* pending it has none; after the store operation the one response is the success
\* payload (200) or the 500, never both; a request rejected by a validator has
\* the 400 as its one response.
C8_ExactlyOneResponseAfterStore ==
  \A i \in ReqIx :
    reqs[i].route \in StoreRoutes =>
      /\ Len(reqs[i].res) <= 1
      /\ reqs[i].pc = "done" <=> Len(reqs[i].res) = 1
      /\ reqs[i].pc = "db" => reqs[i].res = <<>> /\ reqs[i].calls = 1
      /\ (reqs[i].pc = "done" /\ reqs[i].op # "none") =>
           /\ reqs[i].res[1].status \in {200, 500}
           /\ reqs[i].res[1].status = 500 <=> reqs[i].logged = 1
      /\ reqs[i].mw = "rejected" =>
           reqs[i].res[1].status = 400 /\ reqs[i].op = "none"

C8_Witness ==
  /\ \E i \in ReqIx :
       reqs[i].route = "/user" /\ reqs[i].op = "get" /\ reqs[i].pc = "done"
         /\ reqs[i].res[1].status = 500
  /\ \E i \in ReqIx :
       reqs[i].route = "/comment" /\ reqs[i].op = "run" /\ reqs[i].pc = "done"
         /\ reqs[i].res[1].status = 200

\* the plaintext passwords the server has seen or stored the hash of
Plaintexts ==
  {users[u].password.of : u \in 1..Len(users)} \cup {tasks[t].password : t \in 1..Len(tasks)}

\* C9: no response body holds a credential, plain or hashed: no row of any
\* response has a password column, the rows of /users hold the id only and the
\* rows of /user hold id and name only, and no response text is a password.
C9_NoCredentialInResponses ==
  \A i \in ReqIx :
    \A k \in 1..Len(reqs[i].res) :
      LET r == reqs[i].res[k]
      IN /\ r.text \notin Plaintexts
         /\ \A j \in 1..Len(r.rows) :
              /\ "password" \notin DOMAIN r.rows[j]
              /\ reqs[i].route = "/users" => DOMAIN r.rows[j] = {"id"}
              /\ reqs[i].route = "/user" => DOMAIN r.rows[j] = {"id", "name"}

C9_Witness ==
  /\ \E i \in ReqIx :
       reqs[i].route = "/user" /\ reqs[i].pc = "done"
         /\ reqs[i].res[1].rows = <<[id |-> 2, name |-> "Bob Ray"]>>
  /\ \E i \in ReqIx :
       reqs[i].route = "/users" /\ reqs[i].pc = "done"
         /\ reqs[i].res[1].rows = <<[id |-> 1], [id |-> 2]>>

\* C10 (as claimed): the id of every store lookup is a positive integer.
C10_LookupIdIsPositiveInteger ==
  \A i \in ReqIx :
    (reqs[i].route = "/user" /\ reqs[i].op = "get") =>
      LET x == ToNumber(reqs[i].param) IN x.k = "fin" /\ x.e = 0 /\ x.n >= 1

\* C10 (amended): the id of every store lookup is the submitted id, which is
\* truthy and coerces to a number: absent, null, false, the number 0, the empty
\* string and every id that coerces to NaN never reach the store.
C10_LookupIdIsTruthyAndNumeric ==
  \A i \in ReqIx :
    (reqs[i].route = "/user" /\ (reqs[i].op = "get" \/ reqs[i].calls > 0)) =>
      /\ reqs[i].param = reqs[i].sub
      /\ reqs[i].sub \notin {Undef, Null, Bool(FALSE), Num(0, 0), Str(<<>>)}
      /\ ToNumber(reqs[i].sub) # NaN

\* a negative fraction, -0.1, has reached the store
C10_Witness ==
  \E i \in ReqIx :
    /\ reqs[i].route = "/user" /\ reqs[i].sub = Num(0 - 1, 1)
    /\ reqs[i].op = "get" /\ reqs[i].pc = "done" /\ reqs[i].res[1].status = 200

\* C11 (as claimed): when the store operation of a request to /users, /user,
\* /comment or /comments fails, the one response is a 5xx that reveals nothing
\* of the store's error detail, the failure is logged once and the store
\* operation is issued once (no retry).
C11_StoreFailureIsOpaque ==
  \A i \in ReqIx :
    (reqs[i].route \in StoreRoutes /\ reqs[i].op # "none" /\ reqs[i].pc = "done"
       /\ reqs[i].res[1].status # 200) =>
      /\ reqs[i].res[1].status >= 500 /\ reqs[i].res[1].status <= 599
      /\ reqs[i].res[1].text # ErrMessage
      /\ reqs[i].res[1].text \notin {"Invalid ID", "Comment cannot be empty"}
      /\ reqs[i].logged = 1 /\ reqs[i].calls = 1

\* the record the lookup answers for stored user k
UserRecord(k) == [id |-> users[k].id, name |-> users[k].name]

\* the stored users whose identifier is the number x
UsersNumbered(x) == {k \in 1..Len(users) : x = Fin(users[k].id, 0)}

\* C12 (as claimed): the answer to an accepted id whose lookup succeeded is
\* empty when no stored user has that identifier and otherwise the one record
\* (identifier and display name) of the stored user whose identifier equals the
\* submitted one, the submitted id being the number validateUserId accepted it as.
C12_LookupByAcceptedNumber ==
  \A i \in ReqIx :
    (reqs[i].route = "/user" /\ reqs[i].mw = "next" /\ reqs[i].pc = "done"
       /\ reqs[i].res[1].status = 200) =>
      LET rows == reqs[i].res[1].rows
          hits == UsersNumbered(ToNumber(reqs[i].sub))
      IN /\ Len(rows) <= 1
         /\ (hits = {}) => (rows = <<>>)
         /\ (hits # {}) => \E k \in hits : rows = <<UserRecord(k)>>

\* the number the store compares with the key for an id that is a number, a
\* boolean or a string: the value, 1 for true, the decimal numeral the string
\* spells between the white space of SQLite (none for any other string)
StoreNumber(id) ==
  CASE id.t = "num" -> Fin(id.n, id.e)
    [] id.t = "bool" -> IF id.b THEN Fin(1, 0) ELSE Fin(0, 0)
    [] id.t = "str" -> SqliteTextToNumber(id.s)
    [] OTHER -> NaN

\* C12 (amended): the answer to an accepted id whose lookup succeeded is one
\* response holding a sequence of length zero or one. For a number, a boolean or
\* a string it is empty when no stored user has the number the store reads the
\* id as, and otherwise the one record (identifier and display name, nothing
\* else) of that user; a string that spells no decimal numeral for the store
\* ("0x2", or "2" after a no-break space) selects nobody although
\* validateUserId accepted it. For an array it is empty or the record of the
\* user numbered by the string the array converts to, as the driver binds it.
C12_LookupReturnsTheMatchingUser ==
  \A i \in ReqIx :
    (reqs[i].route = "/user" /\ reqs[i].mw = "next" /\ reqs[i].pc = "done"
       /\ reqs[i].res[1].status = 200) =>
      LET rows == reqs[i].res[1].rows
          sub == reqs[i].sub
          hits == UsersNumbered(StoreNumber(sub))
          viaText == UsersNumbered(SqliteTextToNumber(ToStringOfObject(sub)))
      IN /\ Len(reqs[i].res) = 1
         /\ Len(rows) <= 1
         /\ sub.t \in {"num", "bool", "str", "arr"}
         /\ (sub.t # "arr" /\ hits = {}) => (rows = <<>>)
         /\ (sub.t # "arr" /\ hits # {}) => \E k \in hits : rows = <<UserRecord(k)>>
         /\ (sub.t = "arr") => (rows = <<>> \/ \E k \in viaText : rows = <<UserRecord(k)>>)

\* "0x2", which validateUserId accepts as the number 2, has been looked up with
\* user 2 stored, and nobody was found
C12_Witness ==
  \E i \in ReqIx :
    /\ reqs[i].route = "/user" /\ reqs[i].pc = "done" /\ reqs[i].mw = "next"
    /\ reqs[i].sub = Str(<<"0", "x", "2">>)
    /\ reqs[i].res = <<Response(200, "json", "", <<>>, FALSE)>>
    /\ users = SeedUsers

\* the characters sanitizeComment replaces
Unsafe == {"&", "<", ">", "\""}
OnlySafe(s) == \A k \in 1..Len(s) : s[k] \notin Unsafe

\* C13: a non-empty text with none of & < > " in it passes sanitizeComment
\* unchanged: the request goes on to the handler and the content the handler
\* reads is the submitted one.
C13_SafeTextIsUnchanged ==
  \A i \in ReqIx :
    (reqs[i].route = "/comment" /\ reqs[i].sub.t = "str" /\ reqs[i].sub.s # <<>>
       /\ OnlySafe(reqs[i].sub.s)) =>
      /\ reqs[i].mw = "next"
      /\ reqs[i].op = "run"
      /\ reqs[i].param = reqs[i].sub

C13_Witness ==
  \E i \in ReqIx :
    /\ reqs[i].route = "/comment" /\ reqs[i].sub = Str(SafeExample)
    /\ reqs[i].mw = "next" /\ reqs[i].param = Str(SafeExample)

\* the bcrypt hash, with the salt rounds of the code, of a plaintext
IsHashOf(credential, password) ==
  credential = [alg |-> "bcrypt", rounds |-> SaltRounds, of |-> password]

\* C14: at every point of a run of the user seeding, whatever the order of the
\* hash and insert callbacks, the credential passed to each user insert is the
\* bcrypt hash of that user's fetched password, and every row of the users table
\* holds a bcrypt hash: each seeded row holds the hash of the password fetched
\* for the user of that name.
C14_OnlyHashesAreStored ==
  /\ \A t \in 1..Len(tasks) :
       tasks[t].stage \in {"insert", "done", "failed"} =>
         IsHashOf(tasks[t].credential, tasks[t].password)
  /\ \A k \in 1..Len(users) :
       /\ users[k].password.alg = "bcrypt"
       /\ users[k].password.rounds = SaltRounds
  /\ \A k \in NewUsers :
       \E t \in 1..Len(tasks) :
         /\ tasks[t].stage = "done" /\ tasks[t].name = users[k].name
         /\ IsHashOf(users[k].password, tasks[t].password)
  /\ Cardinality({t \in 1..Len(tasks) : tasks[t].stage = "done"}) = Cardinality(NewUsers)

\* on a first run the three users of one /populate are stored, the third
\* fetched one first
C14_Witness ==
  /\ Len(users) = 3 /\ OldUsers = 0
  /\ users[1].name = "Cy Orr"
  /\ IsHashOf(users[1].password, "pw1")
  /\ \A t \in 1..Len(tasks) : tasks[t].stage = "done"

\* the comment requests whose insert the store has completed
Inserted ==
  {i \in ReqIx : /\ reqs[i].route = "/comment" /\ reqs[i].pc = "done"
                 /\ reqs[i].res[1].status = 200}

\* C15: with comment requests running concurrently, their inserts completing in
\* any order, a rejected request issues no insert, an accepted one issues exactly
\* one, of the escaping of its own content, and the stored contents are, as a
\* multiset, those the table held at the start and the escapings of the contents
\* of the requests whose insert the store completed: for every content, as many
\* new rows as such requests.
C15_EachCommentStoresItsOwnContent ==
  /\ \A i \in ReqIx :
       reqs[i].route = "/comment" =>
         IF reqs[i].mw = "next"
         THEN /\ reqs[i].calls = 1 /\ reqs[i].op = "run"
              /\ reqs[i].param = Str(RefEscape(reqs[i].sub.s))
         ELSE reqs[i].calls = 0 /\ reqs[i].op = "none" /\ reqs[i].pc = "done"
  /\ Cardinality(NewComments) = Cardinality(Inserted)
  /\ \A c \in {comments[k].content : k \in NewComments}
            \cup {RefEscape(reqs[i].sub.s) : i \in Inserted} :
       Cardinality({k \in NewComments : comments[k].content = c})
         = Cardinality({i \in Inserted : RefEscape(reqs[i].sub.s) = c})

\* two accepted requests with different contents, the second one's insert
\* completed first, and both stored
C15_Witness ==
  /\ Len(reqs) >= 2 /\ Len(comments) = 2 /\ OldComments = 0
  /\ reqs[1].sub = Str(<<"&", "<">>) /\ reqs[2].sub = Str(BoldExample)
  /\ comments[1].content = BoldEscaped
  /\ comments[2].content = AMP \o LT

\* the per-user callbacks started by /populate request i
TasksOf(i) == {t \in 1..Len(tasks) : tasks[t].req = i}

\* C16 (as claimed): once a /populate request has sent "Inserted 3 users into
\* database.", its three user inserts have completed or failed in the store: no
\* password hash and no insert of that request is pending, and the fetch of the
\* random users did not fail.
C16_PopulateAnswersAfterInserts ==
  \A i \in ReqIx :
    (reqs[i].route = "/populate" /\ reqs[i].res # <<>>
       /\ reqs[i].res[1].text = "Inserted 3 users into database.") =>
      /\ Cardinality(TasksOf(i)) = 3
      /\ \A t \in TasksOf(i) : tasks[t].stage \in {"done", "failed"}

\* s begins with pat
StartsWith(s, pat) == Len(pat) <= Len(s) /\ SubSeq(s, 1, Len(pat)) = pat

\* every occurrence of pat in s, found left to right, replaced by rep
RECURSIVE ReplaceSub(_, _, _)
ReplaceSub(s, pat, rep) ==
  IF s = <<>> THEN <<>>
  ELSE IF StartsWith(s, pat)
       THEN rep \o ReplaceSub(SubSeq(s, Len(pat) + 1, Len(s)), pat, rep)
       ELSE <<s[1]>> \o ReplaceSub(Tail(s), pat, rep)

\* &quot; &gt; &lt; &amp; replaced, in that order, by " > < &
Unescape(s) ==
  ReplaceSub(ReplaceSub(ReplaceSub(ReplaceSub(s, QUOT, <<"\"">>), GT, <<">">>), LT, <<"<">>),
             AMP, <<"&">>)

\* the non-empty strings among the contents
ContentStrings == {v \in ContentValues : v.t = "str" /\ v.s # <<>>}

\* C17: sanitizeComment loses nothing of a non-empty string: unescaping the
\* content the handler stores gives the submitted content back, and no other
\* non-empty string is sanitized to the same stored content.
C17_SanitizeIsInvertible ==
  \A i \in ReqIx :
    (reqs[i].route = "/comment" /\ reqs[i].mw = "next" /\ reqs[i].pc = "db") =>
      /\ Unescape(reqs[i].param.s) = reqs[i].sub.s
      /\ \A v \in ContentStrings :
           sanitizeComment(v) = reqs[i].param => v = reqs[i].sub

\* a content that is itself an escape sequence is stored one level deeper, as
\* &amp;lt; and not as the &lt; that < is stored as
C17_Witness ==
  \E i \in ReqIx :
    /\ reqs[i].route = "/comment" /\ reqs[i].pc = "db"
    /\ reqs[i].sub = Str(LT)
    /\ reqs[i].param = Str(AMP \o <<"l", "t", ";">>)
    /\ Unescape(reqs[i].param.s) = LT
    /\ sanitizeComment(Str(<<"<">>)) = Str(LT)

====
